---- MODULE Spec2Model ----
(***************************************************************************)
(* Model of sync-marketplaces.py: MarketplaceAggregator.                   *)
(*                                                                         *)
(* Python str values on which the code performs string operations (urls,   *)
(* branches, tags, plugin names, `source` and target paths) are sequences  *)
(* of one-character strings, so that concatenation, splitting, prefix tests *)
(* and lexicographic comparison are computed, not assumed.  Values that    *)
(* are only compared for equality (dict keys, versions, file names)        *)
(* are TLA+ strings.  Python dicts are functions whose DOMAIN is the set   *)
(* of keys.                                                                *)
(***************************************************************************)
EXTENDS Integers, Sequences, FiniteSets, TLC

(***************************************************************************)
(* Bounds                                                                  *)
(***************************************************************************)
\* longest `sources` list of a configuration
MaxSources == 3

(***************************************************************************)
(* Python str operations on character sequences                            *)
(***************************************************************************)
\* the characters that occur in the model, in code-point order
Alphabet ==
    << "#", "-", ".", "/", "0", "1", "2", ":", ";", "?", "@",
       "a", "b", "c", "d", "e", "f", "g", "h", "i", "j", "k", "l", "m",
       "n", "o", "p", "q", "r", "s", "t", "u", "v", "w", "x", "y", "z" >>

\* ord(c)
Ord(c) == CHOOSE i \in 1..Len(Alphabet) : Alphabet[i] = c

\* a < b for Python str (lexicographic by code point)
StrLess(a, b) ==
    \E k \in 1..Len(b) :
        /\ k - 1 <= Len(a)
        /\ \A j \in 1..(k - 1) : a[j] = b[j]
        /\ \/ k = Len(a) + 1
           \/ k <= Len(a) /\ Ord(a[k]) < Ord(b[k])

\* s.startswith(p)
StartsWith(s, p) ==
    /\ Len(p) <= Len(s)
    /\ \A j \in 1..Len(p) : s[j] = p[j]

\* s[i:], 1-based i
From(s, i) == SubSeq(s, i, Len(s))

\* positions at which one of the characters cs occurs in s
Positions(s, cs) == { i \in 1..Len(s) : s[i] \in cs }

\* smallest element of a non-empty set of integers
Min(S) == CHOOSE x \in S : \A y \in S : x <= y

\* largest element of a non-empty set of integers
Max(S) == CHOOSE x \in S : \A y \in S : y <= x

\* s.split(c)[-1]
SplitLast(s, c) ==
    IF Positions(s, {c}) = {} THEN s ELSE From(s, Max(Positions(s, {c})) + 1)

\* s.split(c, 1)[0]
BeforeFirst(s, cs) ==
    IF Positions(s, cs) = {} THEN s ELSE SubSeq(s, 1, Min(Positions(s, cs)) - 1)

\* s.rstrip(c)
RECURSIVE RStrip(_, _)
RStrip(s, c) ==
    IF s # <<>> /\ s[Len(s)] = c THEN RStrip(SubSeq(s, 1, Len(s) - 1), c) ELSE s

\* s.replace(pat, ""): every non-overlapping occurrence, left to right
RECURSIVE RemoveAll(_, _)
RemoveAll(s, pat) ==
    IF s = <<>> THEN <<>>
    ELSE IF StartsWith(s, pat) THEN RemoveAll(From(s, Len(pat) + 1), pat)
    ELSE <<s[1]>> \o RemoveAll(Tail(s), pat)

\* sep.join(parts)
RECURSIVE Join(_, _)
Join(sep, parts) ==
    IF parts = <<>> THEN <<>>
    ELSE IF Len(parts) = 1 THEN parts[1]
    ELSE parts[1] \o sep \o Join(sep, Tail(parts))

\* urllib.parse.urlparse(url).path for a url that starts with "http"
UrlPath(url) ==
    LET colon    == Positions(url, {":"})
        hasSch   == colon # {} /\ Positions(SubSeq(url, 1, Min(colon) - 1),
                                            {"/", "?", "#", "@", ";"}) = {}
        rest     == IF hasSch THEN From(url, Min(colon) + 1) ELSE url
        afterLoc == IF StartsWith(rest, <<"/", "/">>)
                    THEN LET r2 == From(rest, 3)
                         IN  IF Positions(r2, {"/", "?", "#"}) = {} THEN <<>>
                             ELSE From(r2, Min(Positions(r2, {"/", "?", "#"})))
                    ELSE rest
        noFrag   == BeforeFirst(afterLoc, {"#"})
        noQuery  == BeforeFirst(noFrag, {"?"})
        slash    == Positions(noQuery, {"/"})
        lastSeg  == IF slash = {} THEN 1 ELSE Max(slash)
        semi     == { i \in Positions(noQuery, {";"}) : i >= lastSeg }
    IN  IF semi = {} THEN noQuery ELSE SubSeq(noQuery, 1, Min(semi) - 1)

\* MarketplaceAggregator._extract_repo_name
extract_repo_name(url) ==
    LET path == IF StartsWith(url, <<"h", "t", "t", "p">>)
                THEN UrlPath(url)
                ELSE SplitLast(url, ":")
        name == SplitLast(RStrip(path, "/"), "/")
    IN  RemoveAll(name, <<".", "g", "i", "t">>)

(***************************************************************************)
(* The upstream world: what `git clone` finds                              *)
(***************************************************************************)
\* "main"
Main == <<"m", "a", "i", "n">>
\* "http://h/ma"
UrlA == <<"h", "t", "t", "p", ":", "/", "/", "h", "/", "m", "a">>
\* "http://h/o/mb.git"
UrlB == <<"h", "t", "t", "p", ":", "/", "/", "h", "/", "o", "/", "m", "b", ".", "g", "i", "t">>
\* "g@h:o/mc.git"
UrlC == <<"g", "@", "h", ":", "o", "/", "m", "c", ".", "g", "i", "t">>
\* "http://h/md/": a repository without .claude-plugin/marketplace.json
UrlNoDesc == <<"h", "t", "t", "p", ":", "/", "/", "h", "/", "m", "d", "/">>
\* "http://h/no": no such repository
UrlBad == <<"h", "t", "t", "p", ":", "/", "/", "h", "/", "n", "o">>
\* "http://h/x.gitx": a repository name with ".git" inside
UrlD == <<"h", "t", "t", "p", ":", "/", "/", "h", "/", "x", ".", "g", "i", "t", "x">>
\* "http://h/ma@v": a repository whose url ends with "@v"
UrlE == UrlA \o <<"@", "v">>
\* "v@main": a branch of the repository at UrlA
BranchV == <<"v", "@">> \o Main
\* "http://h/sk": a skill repository
UrlSk == <<"h", "t", "t", "p", ":", "/", "/", "h", "/", "s", "k">>

\* plugin names
P1 == <<"p", "1">>
P2 == <<"p", "2">>
P3 == <<"p", "3">>
Sk == <<"s", "k">>

\* an entry of an upstream marketplace.json with a relative `source`
Entry(n, v) == [name |-> n, version |-> v, source |-> <<".", "/">> \o n]

\* the repository behind (url, branch): exists, has_descriptor,
\* marketplace_data (the parsed descriptor), files (name -> content),
\* skill_version (what the version regexes find in SKILL.md)
NoRepo ==
    [exists |-> FALSE, has_descriptor |-> FALSE, marketplace_data |-> <<>>,
     files |-> {}, skill_version |-> "1.0.0"]

Remote(url, branch) ==
    IF url = UrlA /\ branch = BranchV THEN
        [NoRepo EXCEPT !.exists = TRUE, !.has_descriptor = TRUE,
            !.marketplace_data = [plugins |-> << Entry(P3, "6.0.0") >>],
            !.files = {".git", ".claude-plugin"}]
    ELSE IF branch # Main THEN NoRepo
    ELSE IF url = UrlE THEN
        [NoRepo EXCEPT !.exists = TRUE, !.has_descriptor = TRUE,
            !.marketplace_data = [plugins |-> << Entry(P2, "5.0.0") >>],
            !.files = {".git", ".claude-plugin"}]
    ELSE IF url = UrlA THEN
        [NoRepo EXCEPT !.exists = TRUE, !.has_descriptor = TRUE,
            !.marketplace_data =
                [plugins |-> << Entry(P1, "1.0.0"), Entry(P2, "1.0.0"),
                                Entry(P3, "1.0.0") >>],
            !.files = {".git", ".claude-plugin"}]
    ELSE IF url = UrlB THEN
        [NoRepo EXCEPT !.exists = TRUE, !.has_descriptor = TRUE,
            !.marketplace_data =
                [plugins |-> << Entry(P2, "2.0.0"), Entry(P1, "2.0.0"),
                                Entry(P2, "2.5.0") >>],
            !.files = {".git", ".claude-plugin"}]
    ELSE IF url = UrlC THEN
        [NoRepo EXCEPT !.exists = TRUE, !.has_descriptor = TRUE,
            !.marketplace_data =
                [plugins |-> << Entry(P3, "3.0.0"), Entry(P1, "3.0.0") >>],
            !.files = {".git", ".claude-plugin"}]
    ELSE IF url = UrlD THEN
        [NoRepo EXCEPT !.exists = TRUE, !.has_descriptor = TRUE,
            !.marketplace_data = [plugins |-> << Entry(P2, "4.0.0") >>],
            !.files = {".git", ".claude-plugin"}]
    ELSE IF url = UrlNoDesc THEN
        [NoRepo EXCEPT !.exists = TRUE, !.files = {".git", "README.md"}]
    ELSE IF url = UrlSk THEN
        [NoRepo EXCEPT !.exists = TRUE, !.files = {".git", "SKILL.md", "run.py"},
            !.skill_version = "2.1.0"]
    ELSE NoRepo

(***************************************************************************)
(* Configurations                                                          *)
(***************************************************************************)
\* dict.get(key, default)
Get(d, key, default) == IF key \in DOMAIN d THEN d[key] ELSE default

\* the source specs a configuration is built from
SourcePool ==
    << [type |-> "marketplace", url |-> UrlA],
       [type |-> "marketplace", url |-> UrlB, branch |-> Main,
        denylist |-> <<P1>>],
       [type |-> "marketplace", url |-> UrlC, tag_prefix |-> <<"m", "b">>,
        denylist |-> <<P3>>],
       [type |-> "marketplace", url |-> UrlA, branch |-> Main,
        tag_prefix |-> <<"z", "z">>, denylist |-> <<P1, P1>>],
       [type |-> "marketplace", url |-> UrlBad],
       [type |-> "marketplace", url |-> UrlNoDesc],
       [name |-> Sk, url |-> UrlSk],
       [type |-> "skill", name |-> P3, url |-> UrlSk,
        target_path |-> <<"x", "/", "p", "3">>, description |-> <<"d">>],
       [type |-> "plugin", name |-> P1],
       [type |-> "skill", name |-> Sk, url |-> UrlSk,
        target_path |-> <<"r", "o", "/", "s", "k">>, category |-> <<"c">>],
       [type |-> "marketplace", url |-> UrlD],
       [type |-> "marketplace", url |-> UrlE],
       [type |-> "marketplace", url |-> UrlA, branch |-> BranchV] >>

\* the `sync_settings` variants; <<>> is a configuration without the key
SettingsPool ==
    << <<>>,
       [sync_settings |->
           [provenance_field |-> "origin",
            exclude_patterns |-> <<".git", "SKILL.md">>]] >>

\* the parsed configuration with the given sources and settings variant
Config(srcs, settings) ==
    [k \in {"marketplace", "sources"} \cup DOMAIN settings |->
        IF k = "sources" THEN srcs
        ELSE IF k = "marketplace" THEN [name |-> "test", version |-> "1.0.0"]
        ELSE settings[k]]

\* the choices of at most MaxSources sources from the pool
SourceChoices == UNION { [1..n -> 1..Len(SourcePool)] : n \in 0..MaxSources }

(***************************************************************************)
(* State                                                                   *)
(***************************************************************************)
VARIABLES
    config_file,             \* the file at config_path: "ok", "missing", "invalid"
    config,                  \* self.config
    pc,                      \* where the program is
    idx,                     \* position of run()'s loop in config["sources"]
    processed_marketplaces,  \* self.processed_marketplaces
    all_plugins,             \* self.all_plugins
    provenance_map,          \* self.provenance_map
    temp_dir,                \* whether the TemporaryDirectory exists on disk
    clone_dirs,              \* the clone directories inside the temp directory
    fetches,                 \* number of `git clone` invocations
    targets,                 \* output tree: target path -> set of file names
    output,                  \* the file at output_path: <<>> or <<marketplace_data>>
    output_writes,           \* number of times output_path was written
    origins,                 \* the provenance file: <<>> or <<mapping>>
    result,                  \* what run() returned, None before it returns
    log,                     \* the calls of self.log, in order
    first_run                \* <<>>, or <<what an earlier invocation left>>

vars ==
    << config_file, config, pc, idx, processed_marketplaces, all_plugins,
       provenance_map, temp_dir, clone_dirs, fetches, targets, output,
       output_writes, origins, result, log, first_run >>

\* run() has not returned
None == -1

\* "skills/sk"
SkillsSk == <<"s", "k", "i", "l", "l", "s", "/", "s", "k">>

\* the output tree before the run: a previous copy of the skill `sk`
InitialTargets == [p \in {SkillsSk} |-> {"SKILL.md", "old.txt"}]

\* MarketplaceAggregator.__init__ up to the opening of the configuration file
Init ==
    /\ config_file \in {"ok", "missing", "invalid"}
    /\ \E f \in SourceChoices, s \in 1..Len(SettingsPool) :
          /\ config_file # "ok" => (f = <<>> /\ s = 1)
          /\ config = Config([i \in DOMAIN f |-> SourcePool[f[i]]], SettingsPool[s])
    /\ pc = "new"
    /\ idx = 0
    /\ processed_marketplaces = {}
    /\ all_plugins = <<>>
    /\ provenance_map = <<>>
    /\ temp_dir = FALSE
    /\ clone_dirs = {}
    /\ fetches = 0
    /\ targets = InitialTargets
    /\ output = <<>>
    /\ output_writes = 0
    /\ origins = <<>>
    /\ result = None
    /\ log = <<>>
    /\ first_run = <<>>

\* self.log(message, level)
Logged(level, event) == log' = Append(log, [level |-> level, event |-> event, at |-> idx])

\* the load error caught and an empty configuration used in its place
Construct_DefaultsOnError ==
    /\ pc = "new"
    /\ pc' = "constructed"
    /\ UNCHANGED << config_file, config, first_run, idx, processed_marketplaces, all_plugins,
                    provenance_map, temp_dir, clone_dirs, fetches, targets, output,
                    output_writes, origins, result, log >>

\* MarketplaceAggregator.__init__: json.load of the configuration file
Construct ==
    /\ pc = "new"
    /\ pc' = IF config_file = "ok" THEN "constructed" ELSE "raised"
    /\ UNCHANGED << config_file, config, first_run, idx, processed_marketplaces, all_plugins,
                    provenance_map, temp_dir, clone_dirs, fetches, targets, output,
                    output_writes, origins, result, log >>

\* run(): entering the TemporaryDirectory context
RunStart ==
    /\ pc = "constructed"
    /\ pc' = "sources"
    /\ idx' = 1
    /\ temp_dir' = TRUE
    /\ Logged("info", "temp_dir")
    /\ UNCHANGED << config_file, config, first_run, processed_marketplaces, all_plugins,
                    provenance_map, clone_dirs, fetches, targets, output,
                    output_writes, origins, result >>

\* self.config.get("sources", [])
Sources == Get(config, "sources", <<>>)

\* self.config.get("sync_settings", {}).get("provenance_field", "source_marketplace")
provenance_field ==
    Get(Get(config, "sync_settings", <<>>), "provenance_field", "source_marketplace")

\* the loop of run() is at a source
AtSource == pc = "sources" /\ idx \in 1..Len(Sources)

\* source.get("type", "skill")
source_type(source) == Get(source, "type", "skill")

\* the temporary directory made with mkdtemp and removed only at the end of
\* the `try` body, so that an exception leaves it behind
Raised_LeavesTempDir ==
    /\ pc' = "done"
    /\ result' = 1
    /\ temp_dir' = temp_dir
    /\ clone_dirs' = clone_dirs

\* the exception handler of run() returning success
Raised_ReturnsZero ==
    /\ pc' = "done"
    /\ result' = 0
    /\ temp_dir' = FALSE
    /\ clone_dirs' = {}

\* run(): an exception leaves the `with` block (the temporary directory is
\* removed) and is caught by `except Exception`, which returns 1
Raised ==
    /\ pc' = "done"
    /\ result' = 1
    /\ temp_dir' = FALSE
    /\ clone_dirs' = {}

\* decimal digits of a natural number, as a str
RECURSIVE Decimal(_)
Decimal(n) ==
    LET d == <<"0", "1", "2", "3", "4", "5", "6", "7", "8", "9">>[(n % 10) + 1]
    IN  IF n < 10 THEN <<d>> ELSE Decimal(n \div 10) \o <<d>>

\* _clone_repo succeeds: the repository exists at the branch and the target
\* directory is not already populated
CloneSucceeds(url, branch, target_dir) ==
    /\ Remote(url, branch).exists
    /\ target_dir \notin clone_dirs
(***************************************************************************)
(* _process_marketplace                                                    *)
(***************************************************************************)
\* f"{url}@{branch}"
marketplace_id(url, branch) == url \o <<"@">> \o branch

\* source.get("branch", "main")
branch_of(source) == Get(source, "branch", Main)

\* set(source.get("denylist", []))
denylist_of(source) ==
    LET l == Get(source, "denylist", <<>>) IN { l[i] : i \in DOMAIN l }

\* source.get("tag_prefix", self._extract_repo_name(url))
tag_prefix_of(source) == Get(source, "tag_prefix", extract_repo_name(source.url))

\* a separator put in front of every element instead of between them
ChainTag_LeadingSeparator(parent_chain, tag_prefix) ==
    <<"/">> \o Join(<<"/">>, Append(parent_chain, tag_prefix))

\* "/".join(parent_chain + [tag_prefix])
ChainTag(parent_chain, tag_prefix) == Join(<<"/">>, Append(parent_chain, tag_prefix))

\* plugin.copy() with plugin_copy[provenance_field] = tag
Tagged(plugin, tag) ==
    [k \in DOMAIN plugin \cup {provenance_field} |->
        IF k = provenance_field THEN tag ELSE plugin[k]]

\* a tag recorded only for a name that is new, as the payload is kept only
\* for a name that is new
TrackProvenance_OnlyFirst(pm, plugin_name, tag) ==
    [k \in DOMAIN pm \cup {plugin_name} |->
        IF k \in DOMAIN pm THEN pm[k] ELSE <<tag>>]

\* the list of a name overwritten instead of extended
TrackProvenance_Overwrite(pm, plugin_name, tag) ==
    [k \in DOMAIN pm \cup {plugin_name} |-> IF k = plugin_name THEN <<tag>> ELSE pm[k]]

\* provenance_map after provenance_map[plugin_name].append(tag), the list
\* being created when the name is new
TrackProvenance(pm, plugin_name, tag) ==
    [k \in DOMAIN pm \cup {plugin_name} |->
        IF k = plugin_name
        THEN IF plugin_name \in DOMAIN pm THEN Append(pm[plugin_name], tag) ELSE <<tag>>
        ELSE pm[k]]

\* the denylists of all sources applied to every source
Denylisted_AnySource(plugin_name, denylist) ==
    \E i \in DOMAIN Sources : plugin_name \in denylist_of(Sources[i])

\* the denylist check left out
Denylisted_Ignored(plugin_name, denylist) == FALSE

\* whether the loop skips the entry
Denylisted(plugin_name, denylist) == plugin_name \in denylist

\* the loop with the provenance tag recorded before the denylist check, so
\* that a denylisted entry is tracked too
RECURSIVE AddPlugins_TrackBeforeDenylist(_, _, _, _)
AddPlugins_TrackBeforeDenylist(plugins, denylist, tag, acc) ==
    IF plugins = <<>> THEN acc
    ELSE LET plugin  == Head(plugins)
             tracked == TrackProvenance(acc.provenance_map, plugin.name, tag)
         IN  IF Denylisted(plugin.name, denylist)
             THEN AddPlugins_TrackBeforeDenylist(Tail(plugins), denylist, tag,
                     [all_plugins    |-> acc.all_plugins,
                      provenance_map |-> tracked,
                      log            |-> Append(acc.log, [level |-> "info",
                                            event |-> "skip_denylisted", at |-> idx])])
             ELSE AddPlugins_TrackBeforeDenylist(Tail(plugins), denylist, tag,
                     [all_plugins    |-> Append(acc.all_plugins, Tagged(plugin, tag)),
                      provenance_map |-> tracked,
                      log            |-> Append(acc.log, [level |-> "info",
                                            event |-> "adding", at |-> idx])])

\* the loop with all_plugins.insert(0, plugin_copy) in place of append
RECURSIVE AddPlugins_Prepend(_, _, _, _)
AddPlugins_Prepend(plugins, denylist, tag, acc) ==
    IF plugins = <<>> THEN acc
    ELSE LET plugin == Head(plugins)
         IN  IF Denylisted(plugin.name, denylist)
             THEN AddPlugins_Prepend(Tail(plugins), denylist, tag,
                     [acc EXCEPT !.log = Append(@, [level |-> "info",
                                    event |-> "skip_denylisted", at |-> idx])])
             ELSE AddPlugins_Prepend(Tail(plugins), denylist, tag,
                     [all_plugins    |-> <<Tagged(plugin, tag)>> \o acc.all_plugins,
                      provenance_map |-> TrackProvenance(acc.provenance_map,
                                                         plugin.name, tag),
                      log            |-> Append(acc.log, [level |-> "info",
                                            event |-> "adding", at |-> idx])])

\* the loop over marketplace_data.get("plugins", []): acc holds all_plugins,
\* provenance_map and the log as the loop has left them so far
RECURSIVE AddPlugins(_, _, _, _)
AddPlugins(plugins, denylist, tag, acc) ==
    IF plugins = <<>> THEN acc
    ELSE LET plugin == Head(plugins)
         IN  IF Denylisted(plugin.name, denylist)
             THEN AddPlugins(Tail(plugins), denylist, tag,
                     [acc EXCEPT !.log = Append(@, [level |-> "info",
                                    event |-> "skip_denylisted", at |-> idx])])
             ELSE AddPlugins(Tail(plugins), denylist, tag,
                     [all_plugins    |-> Append(acc.all_plugins, Tagged(plugin, tag)),
                      provenance_map |-> TrackProvenance(acc.provenance_map,
                                                         plugin.name, tag),
                      log            |-> Append(acc.log, [level |-> "info",
                                            event |-> "adding", at |-> idx])])

\* self.temp_dir / f"marketplace-{len(self.processed_marketplaces)}"
MarketplaceCloneDir(n) ==
    <<"m", "a", "r", "k", "e", "t", "p", "l", "a", "c", "e", "-">> \o Decimal(n)

\* the `return` after the "already processed" message left out: the source
\* is fetched and its plugins are added again
MarketplaceSkip_NoReturn(source) ==
    LET repo == Remote(source.url, branch_of(source))
        acc  == AddPlugins(Get(repo.marketplace_data, "plugins", <<>>),
                           denylist_of(source),
                           ChainTag(<<>>, tag_prefix_of(source)),
                           [all_plugins |-> all_plugins,
                            provenance_map |-> provenance_map,
                            log |-> Append(log, [level |-> "info",
                                        event |-> "already_processed", at |-> idx])])
    IN  /\ marketplace_id(source.url, branch_of(source)) \in processed_marketplaces
        /\ fetches' = fetches + 1
        /\ all_plugins' = acc.all_plugins
        /\ provenance_map' = acc.provenance_map
        /\ log' = acc.log
        /\ idx' = idx + 1
        /\ UNCHANGED << config_file, config, first_run, pc, processed_marketplaces, temp_dir,
                        clone_dirs, targets, output, output_writes, origins, result >>

\* the source was already processed: log and return
MarketplaceSkip(source) ==
    /\ marketplace_id(source.url, branch_of(source)) \in processed_marketplaces
    /\ Logged("info", "already_processed")
    /\ idx' = idx + 1
    /\ UNCHANGED << config_file, config, first_run, pc, processed_marketplaces, all_plugins,
                    provenance_map, temp_dir, clone_dirs, fetches, targets, output,
                    output_writes, origins, result >>

\* the clone failure caught inside _process_marketplace: the error is logged
\* and the loop of run() goes on with the next source
MarketplaceCloneFails_Swallowed(source) ==
    LET id  == marketplace_id(source.url, branch_of(source))
        dir == MarketplaceCloneDir(Cardinality(processed_marketplaces \cup {id}))
    IN  /\ id \notin processed_marketplaces
        /\ ~CloneSucceeds(source.url, branch_of(source), dir)
        /\ processed_marketplaces' = processed_marketplaces \cup {id}
        /\ fetches' = fetches + 1
        /\ log' = log \o << [level |-> "info", event |-> "processing", at |-> idx],
                            [level |-> "error", event |-> "clone_failed", at |-> idx] >>
        /\ idx' = idx + 1
        /\ UNCHANGED << config_file, config, first_run, pc, all_plugins, provenance_map,
                        temp_dir, clone_dirs, targets, output, output_writes,
                        origins, result >>

\* _clone_repo raises CalledProcessError, which nothing catches before run()
MarketplaceCloneFails(source) ==
    LET id  == marketplace_id(source.url, branch_of(source))
        dir == MarketplaceCloneDir(Cardinality(processed_marketplaces \cup {id}))
    IN  /\ id \notin processed_marketplaces
        /\ ~CloneSucceeds(source.url, branch_of(source), dir)
        /\ processed_marketplaces' = processed_marketplaces \cup {id}
        /\ fetches' = fetches + 1
        /\ log' = log \o << [level |-> "info", event |-> "processing", at |-> idx],
                            [level |-> "error", event |-> "clone_failed", at |-> idx],
                            [level |-> "error", event |-> "failed", at |-> idx] >>
        /\ Raised
        /\ UNCHANGED << config_file, config, first_run, idx, all_plugins, provenance_map,
                        targets, output, output_writes, origins >>

\* the existence test left out: open() of the missing descriptor raises
MarketplaceNoDescriptor_Raises(source) ==
    LET id  == marketplace_id(source.url, branch_of(source))
        dir == MarketplaceCloneDir(Cardinality(processed_marketplaces \cup {id}))
    IN  /\ id \notin processed_marketplaces
        /\ CloneSucceeds(source.url, branch_of(source), dir)
        /\ ~Remote(source.url, branch_of(source)).has_descriptor
        /\ processed_marketplaces' = processed_marketplaces \cup {id}
        /\ fetches' = fetches + 1
        /\ log' = log \o << [level |-> "info", event |-> "processing", at |-> idx],
                            [level |-> "error", event |-> "failed", at |-> idx] >>
        /\ pc' = "done"
        /\ result' = 1
        /\ temp_dir' = FALSE
        /\ clone_dirs' = {}
        /\ UNCHANGED << config_file, config, first_run, idx, all_plugins, provenance_map,
                        targets, output, output_writes, origins >>

\* the clone has no .claude-plugin/marketplace.json: log and return
MarketplaceNoDescriptor(source) ==
    LET id  == marketplace_id(source.url, branch_of(source))
        dir == MarketplaceCloneDir(Cardinality(processed_marketplaces \cup {id}))
    IN  /\ id \notin processed_marketplaces
        /\ CloneSucceeds(source.url, branch_of(source), dir)
        /\ ~Remote(source.url, branch_of(source)).has_descriptor
        /\ processed_marketplaces' = processed_marketplaces \cup {id}
        /\ fetches' = fetches + 1
        /\ clone_dirs' = clone_dirs \cup {dir}
        /\ log' = log \o << [level |-> "info", event |-> "processing", at |-> idx],
                            [level |-> "error", event |-> "no_descriptor", at |-> idx] >>
        /\ idx' = idx + 1
        /\ UNCHANGED << config_file, config, first_run, pc, all_plugins, provenance_map,
                        temp_dir, targets, output, output_writes, origins, result >>

\* the descriptor is read and its plugins are added
MarketplaceAdd(source, parent_chain) ==
    LET id   == marketplace_id(source.url, branch_of(source))
        dir  == MarketplaceCloneDir(Cardinality(processed_marketplaces \cup {id}))
        repo == Remote(source.url, branch_of(source))
        acc  == AddPlugins(Get(repo.marketplace_data, "plugins", <<>>),
                           denylist_of(source),
                           ChainTag(parent_chain, tag_prefix_of(source)),
                           [all_plugins |-> all_plugins,
                            provenance_map |-> provenance_map,
                            log |-> Append(log, [level |-> "info",
                                        event |-> "processing", at |-> idx])])
    IN  /\ id \notin processed_marketplaces
        /\ CloneSucceeds(source.url, branch_of(source), dir)
        /\ repo.has_descriptor
        /\ processed_marketplaces' = processed_marketplaces \cup {id}
        /\ fetches' = fetches + 1
        /\ clone_dirs' = clone_dirs \cup {dir}
        /\ all_plugins' = acc.all_plugins
        /\ provenance_map' = acc.provenance_map
        /\ log' = Append(acc.log, [level |-> "info", event |-> "processed", at |-> idx])
        /\ idx' = idx + 1
        /\ UNCHANGED << config_file, config, first_run, pc, temp_dir, targets, output,
                        output_writes, origins, result >>

\* _process_source for a source of type "marketplace"
ProcessMarketplace ==
    /\ AtSource
    /\ source_type(Sources[idx]) = "marketplace"
    /\ \/ MarketplaceSkip(Sources[idx])
       \/ MarketplaceCloneFails(Sources[idx])
       \/ MarketplaceNoDescriptor(Sources[idx])
       \/ MarketplaceAdd(Sources[idx], <<>>)

\* _process_source for a source of an unknown type: log and go on
ProcessUnknown ==
    /\ AtSource
    /\ source_type(Sources[idx]) \notin {"marketplace", "skill"}
    /\ Logged("error", "unknown_type")
    /\ idx' = idx + 1
    /\ UNCHANGED << config_file, config, first_run, pc, processed_marketplaces, all_plugins,
                    provenance_map, temp_dir, clone_dirs, fetches, targets, output,
                    output_writes, origins, result >>
(***************************************************************************)
(* _process_skill                                                          *)
(***************************************************************************)
\* source.get("target_path", f"skills/{name}")
target_path_of(source) == Get(source, "target_path", <<"s", "k", "i", "l", "l", "s", "/">> \o source.name)

\* self.temp_dir / f"skill-{name}"
SkillCloneDir(name) == <<"s", "k", "i", "l", "l", "-">> \o name

\* self.config.get("sync_settings", {}).get("exclude_patterns", [".git"])
exclude_patterns ==
    LET l == Get(Get(config, "sync_settings", <<>>), "exclude_patterns", <<".git">>)
    IN  { l[i] : i \in DOMAIN l }

\* what shutil.copytree(clone_dir, target, ignore=ignore_patterns(...)) writes
Copied(files) == files \ exclude_patterns

\* _extract_version_from_skill(target / "SKILL.md")
extract_version_from_skill(target_files, repo) ==
    IF "SKILL.md" \notin target_files THEN "1.0.0" ELSE repo.skill_version

\* the plugin_entry dict of _process_skill
SkillEntry(source, parent_chain, version) ==
    LET base == [name        |-> source.name,
                 description |-> Get(source, "description",
                                     <<"S", "k", "i", "l", "l", ":", " ">> \o source.name),
                 version     |-> version,
                 source      |-> <<".", "/">> \o target_path_of(source),
                 category    |-> Get(source, "category", <<"s", "k", "i", "l", "l", "s">>)]
    IN  Tagged(base, IF parent_chain # <<>> THEN Join(<<"/">>, parent_chain)
                     ELSE <<"d", "i", "r", "e", "c", "t">>)

\* "ro/": a directory of the output tree in which nothing can be created
ReadOnlyDir == <<"r", "o", "/">>

\* shutil.rmtree and shutil.copytree raise no OSError for the target
CopySucceeds(target) == ~StartsWith(target, ReadOnlyDir)

\* the clone failure caught inside _process_skill: the error is logged and
\* the loop of run() goes on with the next source
SkillCloneFails_Swallowed(source) ==
    /\ ~CloneSucceeds(source.url, branch_of(source), SkillCloneDir(source.name))
    /\ fetches' = fetches + 1
    /\ log' = log \o << [level |-> "info", event |-> "processing_skill", at |-> idx],
                        [level |-> "error", event |-> "clone_failed", at |-> idx] >>
    /\ idx' = idx + 1
    /\ UNCHANGED << config_file, config, first_run, pc, processed_marketplaces, all_plugins,
                    provenance_map, temp_dir, clone_dirs, targets, output,
                    output_writes, origins, result >>

\* _clone_repo raises CalledProcessError, which nothing catches before run()
SkillCloneFails(source) ==
    /\ ~CloneSucceeds(source.url, branch_of(source), SkillCloneDir(source.name))
    /\ fetches' = fetches + 1
    /\ log' = log \o << [level |-> "info", event |-> "processing_skill", at |-> idx],
                        [level |-> "error", event |-> "clone_failed", at |-> idx],
                        [level |-> "error", event |-> "failed", at |-> idx] >>
    /\ Raised
    /\ UNCHANGED << config_file, config, first_run, idx, processed_marketplaces, all_plugins,
                    provenance_map, targets, output, output_writes, origins >>

\* shutil.copytree raises OSError, which nothing catches before run()
SkillCopyFails(source) ==
    /\ CloneSucceeds(source.url, branch_of(source), SkillCloneDir(source.name))
    /\ ~CopySucceeds(target_path_of(source))
    /\ fetches' = fetches + 1
    /\ log' = log \o << [level |-> "info", event |-> "processing_skill", at |-> idx],
                        [level |-> "error", event |-> "failed", at |-> idx] >>
    /\ Raised
    /\ UNCHANGED << config_file, config, first_run, idx, processed_marketplaces, all_plugins,
                    provenance_map, targets, output, output_writes, origins >>

\* the existing target not removed and the clone copied over it
\* (copytree with dirs_exist_ok), so that old files stay
SkillAdd_Merge(source, parent_chain) ==
    LET repo   == Remote(source.url, branch_of(source))
        target == target_path_of(source)
        files  == Copied(repo.files)
    IN  /\ CloneSucceeds(source.url, branch_of(source), SkillCloneDir(source.name))
        /\ CopySucceeds(target)
        /\ fetches' = fetches + 1
        /\ clone_dirs' = clone_dirs \cup {SkillCloneDir(source.name)}
        /\ targets' = [p \in DOMAIN targets \cup {target} |->
                          IF p # target THEN targets[p]
                          ELSE IF target \in DOMAIN targets
                               THEN targets[target] \cup files
                               ELSE files]
        /\ all_plugins' = Append(all_plugins,
               SkillEntry(source, parent_chain,
                          extract_version_from_skill(files, repo)))
        /\ log' = log \o << [level |-> "info", event |-> "processing_skill", at |-> idx],
                            [level |-> "info", event |-> "added_skill", at |-> idx] >>
        /\ idx' = idx + 1
        /\ UNCHANGED << config_file, config, first_run, pc, processed_marketplaces,
                        provenance_map, temp_dir, output, output_writes, origins,
                        result >>

\* the clone replaces the target and one plugin entry is appended
SkillAdd(source, parent_chain) ==
    LET repo   == Remote(source.url, branch_of(source))
        target == target_path_of(source)
        files  == Copied(repo.files)
    IN  /\ CloneSucceeds(source.url, branch_of(source), SkillCloneDir(source.name))
        /\ CopySucceeds(target)
        /\ fetches' = fetches + 1
        /\ clone_dirs' = clone_dirs \cup {SkillCloneDir(source.name)}
        /\ targets' = [p \in DOMAIN targets \cup {target} |->
                          IF p = target THEN files ELSE targets[p]]
        /\ all_plugins' = Append(all_plugins,
               SkillEntry(source, parent_chain,
                          extract_version_from_skill(files, repo)))
        /\ log' = log \o << [level |-> "info", event |-> "processing_skill", at |-> idx],
                            [level |-> "info", event |-> "added_skill", at |-> idx] >>
        /\ idx' = idx + 1
        /\ UNCHANGED << config_file, config, first_run, pc, processed_marketplaces,
                        provenance_map, temp_dir, output, output_writes, origins,
                        result >>

\* _process_source for a source of type "skill" (the default type)
ProcessSkill ==
    /\ AtSource
    /\ source_type(Sources[idx]) = "skill"
    /\ \/ SkillCloneFails(Sources[idx])
       \/ SkillCopyFails(Sources[idx])
       \/ SkillAdd(Sources[idx], <<>>)

(***************************************************************************)
(* _generate_marketplace                                                   *)
(***************************************************************************)
\* deduplication that lets a later occurrence replace the payload kept so far
RECURSIVE UniquePlugins_LastWins(_, _)
UniquePlugins_LastWins(plugins, seen_names) ==
    IF plugins = <<>> THEN <<>>
    ELSE LET plugin == Head(plugins)
             later  == { i \in 2..Len(plugins) : plugins[i].name = plugin.name }
         IN  IF plugin.name \notin seen_names
             THEN << IF later = {} THEN plugin ELSE plugins[Max(later)] >>
                  \o UniquePlugins_LastWins(Tail(plugins),
                                            seen_names \cup {plugin.name})
             ELSE UniquePlugins_LastWins(Tail(plugins), seen_names)

\* the deduplication loop: the plugins whose name is not in seen_names, in order
RECURSIVE UniquePlugins(_, _)
UniquePlugins(plugins, seen_names) ==
    IF plugins = <<>> THEN <<>>
    ELSE LET plugin == Head(plugins)
         IN  IF plugin.name \notin seen_names
             THEN <<plugin>> \o UniquePlugins(Tail(plugins),
                                              seen_names \cup {plugin.name})
             ELSE UniquePlugins(Tail(plugins), seen_names)

\* the marketplace_data dict written to output_path
MarketplaceData ==
    LET marketplace_config == Get(config, "marketplace", <<>>)
    IN  [name        |-> Get(marketplace_config, "name", "aggregated-marketplace"),
         version     |-> Get(marketplace_config, "version", "1.0.0"),
         description |-> Get(marketplace_config, "description",
                             "Aggregated Claude Code marketplace"),
         owner       |-> Get(marketplace_config, "owner",
                             [name |-> "Marketplace Aggregator",
                              email |-> "noreply@example.com"]),
         plugins     |-> UniquePlugins(all_plugins, {})]

\* _generate_marketplace() called one iteration early, with the last source
\* not yet processed
GenerateMarketplace_BeforeLastSource ==
    /\ pc = "sources"
    /\ idx >= Len(Sources)
    /\ output' = <<MarketplaceData>>
    /\ output_writes' = output_writes + 1
    /\ Logged("info", "generated")
    /\ pc' = "origins"
    /\ UNCHANGED << config_file, config, first_run, idx, processed_marketplaces, all_plugins,
                    provenance_map, temp_dir, clone_dirs, fetches, targets,
                    origins, result >>

\* run() after the loop: _generate_marketplace()
GenerateMarketplace ==
    /\ pc = "sources"
    /\ idx > Len(Sources)
    /\ output' = <<MarketplaceData>>
    /\ output_writes' = output_writes + 1
    /\ Logged("info", "generated")
    /\ pc' = "origins"
    /\ UNCHANGED << config_file, config, first_run, idx, processed_marketplaces, all_plugins,
                    provenance_map, temp_dir, clone_dirs, fetches, targets,
                    origins, result >>

(***************************************************************************)
(* _generate_origins_file: called by the tests, absent from the source     *)
(***************************************************************************)
\* the distinct elements of a list of tags, sorted
RECURSIVE SortedSet(_)
SortedSet(S) ==
    IF S = {} THEN <<>>
    ELSE LET m == CHOOSE x \in S : \A y \in S \ {x} : StrLess(x, y)
         IN  <<m>> \o SortedSet(S \ {m})

\* the collapse rule: a bare string for one distinct tag, else the sorted list
Collapse(tags) ==
    LET distinct == SortedSet({ tags[i] : i \in DOMAIN tags })
    IN  IF Len(distinct) = 1 THEN [json |-> "string", value |-> distinct[1]]
        ELSE [json |-> "array", value |-> distinct]

\* the provenance file: plugin name -> collapsed provenance value
GenerateOriginsFile ==
    /\ pc = "origins"
    /\ origins' = << [n \in DOMAIN provenance_map |-> Collapse(provenance_map[n])] >>
    /\ pc' = "return"
    /\ UNCHANGED << config_file, config, first_run, idx, processed_marketplaces, all_plugins,
                    provenance_map, temp_dir, clone_dirs, fetches, targets,
                    output, output_writes, result, log >>

(***************************************************************************)
(* run                                                                     *)
(***************************************************************************)
\* run(): `return 0` leaves the `with` block, which removes the directory
RunReturn ==
    /\ pc = "return"
    /\ pc' = "done"
    /\ result' = 0
    /\ temp_dir' = FALSE
    /\ clone_dirs' = {}
    /\ Logged("info", "complete")
    /\ UNCHANGED << config_file, config, first_run, idx, processed_marketplaces, all_plugins,
                    provenance_map, fetches, targets, output, output_writes,
                    origins >>

Next ==
    \/ Construct
    \/ RunStart
    \/ ProcessMarketplace
    \/ ProcessSkill
    \/ ProcessUnknown
    \/ GenerateMarketplace
    \/ GenerateOriginsFile
    \/ RunReturn

Spec == Init /\ [][Next]_vars

(***************************************************************************)
(* A second invocation of the program                                      *)
(***************************************************************************)
\* the second instance sharing the processed set of the first (a mutable
\* class attribute instead of an instance attribute)
Rerun_SharedProcessedSet ==
    /\ pc = "done"
    /\ first_run = <<>>
    /\ first_run' = << [result |-> result, output |-> output, origins |-> origins,
                        output_writes |-> output_writes] >>
    /\ pc' = "new"
    /\ idx' = 0
    /\ all_plugins' = <<>>
    /\ provenance_map' = <<>>
    /\ fetches' = 0
    /\ output_writes' = 0
    /\ result' = None
    /\ log' = <<>>
    /\ UNCHANGED << config_file, config, processed_marketplaces, temp_dir,
                    clone_dirs, targets, output, origins >>

\* main() once more, after run() has returned: a new MarketplaceAggregator
\* with empty accumulators, the same configuration file and upstream
\* repositories, and the output tree as the first invocation left it
Rerun ==
    /\ pc = "done"
    /\ first_run = <<>>
    /\ first_run' = << [result |-> result, output |-> output, origins |-> origins,
                        output_writes |-> output_writes] >>
    /\ pc' = "new"
    /\ idx' = 0
    /\ processed_marketplaces' = {}
    /\ all_plugins' = <<>>
    /\ provenance_map' = <<>>
    /\ fetches' = 0
    /\ output_writes' = 0
    /\ result' = None
    /\ log' = <<>>
    /\ UNCHANGED << config_file, config, temp_dir, clone_dirs, targets, output,
                    origins >>

NextRerun ==
    \/ Next
    \/ Rerun

SpecRerun == Init /\ [][NextRerun]_vars

(***************************************************************************)
(* Properties                                                              *)
(***************************************************************************)
\* the names of a list of plugin records
NamesOf(plugins) == { plugins[i].name : i \in DOMAIN plugins }

\* position of the first record of a name in a list of plugin records
FirstIndex(plugins, n) == Min({ i \in DOMAIN plugins : plugins[i].name = n })

\* the plugins list of the catalog that was written
Catalog == output[1].plugins

\* the event of the last call of self.log
LastEvent == IF log = <<>> THEN "" ELSE log[Len(log)].event

\* the marketplace sources whose descriptor was read and whose plugins were added
ProcessedMarketplaces ==
    { i \in DOMAIN Sources : \E k \in DOMAIN log :
                                log[k].event = "processed" /\ log[k].at = i }

\* the plugin entries of the descriptor of source i
Upstream(i) ==
    Get(Remote(Sources[i].url, branch_of(Sources[i])).marketplace_data, "plugins", <<>>)

\* the tags under which processed marketplace sources contributed the name n:
\* the tag_prefix of every processed source that lists n and does not denylist it
ContributedTags(n) ==
    { tag_prefix_of(Sources[i]) :
        i \in { j \in ProcessedMarketplaces :
                  /\ n \in NamesOf(Upstream(j))
                  /\ n \notin denylist_of(Sources[j]) } }

\* C1: the catalog written by _generate_marketplace has exactly one record
\* per distinct name of the accumulated plugin list, that record is the first
\* record of the name in the list, and the records are in the order of
\* their first occurrences
C1_FirstOccurrenceWins ==
    output # <<>> =>
        /\ NamesOf(Catalog) = NamesOf(all_plugins)
        /\ \A i, j \in DOMAIN Catalog : Catalog[i].name = Catalog[j].name => i = j
        /\ \A i \in DOMAIN Catalog :
              Catalog[i] = all_plugins[FirstIndex(all_plugins, Catalog[i].name)]
        /\ \A i, j \in DOMAIN Catalog :
              i < j => FirstIndex(all_plugins, Catalog[i].name)
                         < FirstIndex(all_plugins, Catalog[j].name)

\* C1 witness: a catalog of at least two records was written from a list in
\* which a name occurs twice with different payloads
C1_Witness ==
    /\ output # <<>>
    /\ Len(Catalog) >= 2
    /\ \E i, j \in DOMAIN all_plugins :
          /\ i < j
          /\ all_plugins[i].name = all_plugins[j].name
          /\ all_plugins[i].version # all_plugins[j].version

AtMarketplace == AtSource /\ source_type(Sources[idx]) = "marketplace"

\* the records appended to all_plugins by the step
Appended == SubSeq(all_plugins', Len(all_plugins) + 1, Len(all_plugins'))

\* an upstream entry is not denylisted by the source at idx
Allowed(entry) == entry.name \notin denylist_of(Sources[idx])

\* C4: the step that reads the descriptor of a marketplace source keeps the
\* plugin list as a prefix and appends one record for each upstream entry
\* whose name is not in the denylist, in descriptor order, and nothing else
C4_DenylistExclusion ==
    [][ (AtMarketplace /\ idx' = idx + 1 /\ LastEvent' = "processed") =>
            LET kept == SelectSeq(Upstream(idx), Allowed)
            IN  /\ SubSeq(all_plugins', 1, Len(all_plugins)) = all_plugins
                /\ Len(Appended) = Len(kept)
                /\ \A k \in DOMAIN kept :
                      \A f \in DOMAIN kept[k] \ {provenance_field} :
                          Appended[k][f] = kept[k][f]
                /\ NamesOf(Appended) \cap denylist_of(Sources[idx]) = {} ]_vars

\* C4 witness: a marketplace source whose denylist names one of its upstream
\* entries was processed after another source and appended records
C4_Witness ==
    /\ pc = "sources"
    /\ idx > 2
    /\ LastEvent = "processed"
    /\ source_type(Sources[idx - 1]) = "marketplace"
    /\ denylist_of(Sources[idx - 1]) \cap NamesOf(Upstream(idx - 1)) # {}
    /\ \E k \in DOMAIN log : log[k].event = "skip_denylisted" /\ log[k].at = idx - 1
    /\ \E k \in DOMAIN log : log[k].event = "adding" /\ log[k].at = idx - 1

\* an earlier source of the list is a marketplace source with the url and the
\* branch of the source at idx
ProcessedEarlier ==
    \E j \in 1..(idx - 1) :
        /\ source_type(Sources[j]) = "marketplace"
        /\ Sources[j].url = Sources[idx].url
        /\ branch_of(Sources[j]) = branch_of(Sources[idx])

\* C5: processing a marketplace source whose (url, branch) an earlier source
\* of the run had is a no-op: run() goes on to the next source without
\* raising, nothing is fetched, and the plugin list, the provenance map and
\* the processed set are unchanged
C5_AlreadyProcessedSkip ==
    [][ (AtMarketplace /\ ProcessedEarlier) =>
            /\ pc' = "sources"
            /\ idx' = idx + 1
            /\ result' = None
            /\ fetches' = fetches
            /\ clone_dirs' = clone_dirs
            /\ all_plugins' = all_plugins
            /\ provenance_map' = provenance_map
            /\ processed_marketplaces' = processed_marketplaces ]_vars

\* C5 witness: a source was skipped as already processed although its
\* denylist and tag differ from those of the earlier source, which had
\* contributed plugins
C5_Witness ==
    /\ LastEvent = "already_processed"
    /\ idx > 2
    /\ all_plugins # <<>>
    /\ \E j \in 1..(idx - 2) :
          /\ source_type(Sources[j]) = "marketplace"
          /\ Sources[j].url = Sources[idx - 1].url
          /\ tag_prefix_of(Sources[j]) # tag_prefix_of(Sources[idx - 1])

\* the source at idx is a marketplace source, not processed before, whose
\* repository cannot be fetched
FetchWillFail ==
    /\ AtMarketplace
    /\ marketplace_id(Sources[idx].url, branch_of(Sources[idx]))
          \notin processed_marketplaces
    /\ ~Remote(Sources[idx].url, branch_of(Sources[idx])).exists

\* a marketplace source failed to be fetched
MarketplaceFetchFailed ==
    \E k \in DOMAIN log :
        /\ log[k].event = "clone_failed"
        /\ source_type(Sources[log[k].at]) = "marketplace"

\* C6 as stated: after a fetch failure of a marketplace source the run goes
\* on, so that when run() has returned the catalog is written and the exit
\* status is 0
C6_Original ==
    (pc = "done" /\ MarketplaceFetchFailed) => (output # <<>> /\ result = 0)

\* C6 amended: the fetch failure of a marketplace source adds nothing to the
\* plugin list and the provenance map, and ends the run: run() returns 1
\* at once, the sources after it are not processed and the catalog is not
\* written
C6_FetchFailureIsFatal ==
    [][ /\ FetchWillFail =>
            /\ all_plugins' = all_plugins
            /\ provenance_map' = provenance_map
            /\ pc' = "done"
            /\ result' = 1
            /\ idx' = idx
            /\ output' = <<>>
            /\ output_writes' = 0
        /\ pc = "done" => FALSE ]_vars

\* C6 witness: run() has returned 1 at a marketplace source that could not be
\* fetched, after an earlier source contributed plugins and with a source
\* still unprocessed
C6_Witness ==
    /\ pc = "done"
    /\ result = 1
    /\ MarketplaceFetchFailed
    /\ all_plugins # <<>>
    /\ idx < Len(Sources)
    /\ output = <<>>

\* C7: when run() has returned and the configuration has a marketplace source
\* whose repository cannot be cloned, run() has returned 1
C7_InvalidUrlReturns1 ==
    ( /\ pc = "done"
      /\ \E i \in DOMAIN Sources :
            /\ source_type(Sources[i]) = "marketplace"
            /\ ~Remote(Sources[i].url, branch_of(Sources[i])).exists )
    => result = 1

\* C7 witness: run() has returned for a configuration whose only source is a
\* marketplace with an invalid url, after one clone attempt
C7_Witness ==
    /\ pc = "done"
    /\ Len(Sources) = 1
    /\ source_type(Sources[1]) = "marketplace"
    /\ ~Remote(Sources[1].url, branch_of(Sources[1])).exists
    /\ fetches = 1

\* the source at idx is a marketplace source, not processed before, whose
\* repository is fetched and has no descriptor
DescriptorMissing ==
    /\ AtMarketplace
    /\ marketplace_id(Sources[idx].url, branch_of(Sources[idx]))
          \notin processed_marketplaces
    /\ Remote(Sources[idx].url, branch_of(Sources[idx])).exists
    /\ ~Remote(Sources[idx].url, branch_of(Sources[idx])).has_descriptor

\* some source was fetched and had no descriptor
SomeDescriptorMissing == \E k \in DOMAIN log : log[k].event = "no_descriptor"

\* some fetch failed
SomeFetchFailed == \E k \in DOMAIN log : log[k].event = "clone_failed"

\* some step of a source raised: a fetch or a copy failed
SomeSourceFailed == \E k \in DOMAIN log : log[k].event = "failed"

\* C8: a fetched marketplace repository without descriptor leaves the plugin
\* list and the provenance map unchanged and raises nothing, the loop of
\* run() goes on with the next source, and a run in which no fetch and no
\* copy fails writes the catalog once and returns 0 whether or not a
\* descriptor was missing
C8_MissingDescriptorContinues ==
    [][ /\ DescriptorMissing =>
              /\ all_plugins' = all_plugins
              /\ provenance_map' = provenance_map
              /\ pc' = "sources"
              /\ idx' = idx + 1
              /\ result' = None
        /\ (pc' = "done" /\ SomeDescriptorMissing' /\ ~SomeFetchFailed'
                        /\ ~SomeSourceFailed') =>
              (result' = 0 /\ output' # <<>> /\ output_writes' = 1) ]_vars

\* C8 witness: run() has returned 0 with a catalog holding the plugins of a
\* source that was listed after a source without descriptor
C8_Witness ==
    /\ pc = "done"
    /\ result = 0
    /\ output # <<>>
    /\ \E k \in DOMAIN log :
          /\ log[k].event = "no_descriptor"
          /\ \E j \in ProcessedMarketplaces :
                j > log[k].at /\ NamesOf(Upstream(j)) \cap NamesOf(Catalog) # {}

\* C9 as stated: no record that a marketplace source appends to the plugin
\* list has a `source` beginning with "./"
C9_RelativeSourceRewritten ==
    [][ AtMarketplace =>
            \A k \in DOMAIN Appended :
                "source" \in DOMAIN Appended[k] =>
                    ~StartsWith(Appended[k].source, <<".", "/">>) ]_vars

\* C10 as stated: after a successful run every plugin name of the catalog has
\* an entry in the provenance file, and the entry is the collapsed value of
\* the tags recorded for the name
C10_EveryCatalogNameHasProvenance ==
    (pc = "done" /\ result = 0) =>
        /\ origins # <<>>
        /\ \A i \in DOMAIN Catalog :
              /\ Catalog[i].name \in DOMAIN origins[1]
              /\ Catalog[i].name \in DOMAIN provenance_map
              /\ origins[1][Catalog[i].name]
                    = Collapse(provenance_map[Catalog[i].name])

\* the loop of run() is at a skill source
AtSkill == AtSource /\ source_type(Sources[idx]) = "skill"

\* "direct"
Direct == <<"d", "i", "r", "e", "c", "t">>

\* C11 as stated: processing a skill source with an empty parent chain appends
\* exactly one record, whose provenance field is "direct", and records the
\* tag "direct" in the provenance map under the name of the skill
C11_SkillRecordsDirect ==
    [][ (AtSkill /\ idx' = idx + 1) =>
            /\ Len(Appended) = 1
            /\ SubSeq(all_plugins', 1, Len(all_plugins)) = all_plugins
            /\ Appended[1].name = Sources[idx].name
            /\ Appended[1][provenance_field] = Direct
            /\ Sources[idx].name \in DOMAIN provenance_map'
            /\ \E k \in DOMAIN provenance_map'[Sources[idx].name] :
                  provenance_map'[Sources[idx].name][k] = Direct ]_vars

\* the fetch or the copy of the skill source at idx will fail
SkillWillFail ==
    /\ AtSkill
    /\ \/ ~CloneSucceeds(Sources[idx].url, branch_of(Sources[idx]),
                         SkillCloneDir(Sources[idx].name))
       \/ ~CopySucceeds(target_path_of(Sources[idx]))

\* C12: a skill source whose fetch or copy fails ends the run: nothing is
\* appended, run() returns 1 at once without moving to a later source, the
\* catalog is not written, and nothing happens after run() has returned
C12_SkillFailureIsFatal ==
    [][ /\ SkillWillFail =>
            /\ all_plugins' = all_plugins
            /\ pc' = "done"
            /\ result' = 1
            /\ idx' = idx
            /\ output' = <<>>
            /\ output_writes' = 0
            /\ origins' = <<>>
        /\ pc = "done" => UNCHANGED vars ]_vars

\* C12 witness: run() has returned 1 at a skill source whose copy failed,
\* after an earlier source contributed plugins and with a source still
\* unprocessed, and no catalog was written
C12_Witness ==
    /\ pc = "done"
    /\ result = 1
    /\ idx < Len(Sources)
    /\ source_type(Sources[idx]) = "skill"
    /\ ~CopySucceeds(target_path_of(Sources[idx]))
    /\ all_plugins # <<>>
    /\ LastEvent = "failed"
    /\ output = <<>>

\* no source listed before source i is a marketplace source with its
\* marketplace_id
FirstOfItsKey(i) ==
    \A j \in 1..(i - 1) :
        ~ /\ source_type(Sources[j]) = "marketplace"
          /\ marketplace_id(Sources[j].url, branch_of(Sources[j]))
                = marketplace_id(Sources[i].url, branch_of(Sources[i]))

\* what source i of the configuration contributes when it is processed
\* without an error: the tagged entries a marketplace lists and does not
\* denylist, the one entry of a skill, nothing for an unknown type
Contribution(i) ==
    LET src == Sources[i]
    IN  IF source_type(src) = "marketplace"
        THEN IF FirstOfItsKey(i)
             THEN LET kept == SelectSeq(Upstream(i),
                                  LAMBDA e : e.name \notin denylist_of(src))
                  IN  [k \in 1..Len(kept) |-> Tagged(kept[k], tag_prefix_of(src))]
             ELSE <<>>
        ELSE IF source_type(src) = "skill"
        THEN LET repo == Remote(src.url, branch_of(src))
             IN  << SkillEntry(src, <<>>,
                      extract_version_from_skill(Copied(repo.files), repo)) >>
        ELSE <<>>

\* the contributions of the first n sources, in configuration order
RECURSIVE Concatenated(_)
Concatenated(n) ==
    IF n = 0 THEN <<>> ELSE Concatenated(n - 1) \o Contribution(n)

\* the sources that contribute a record of the name n
Contributors(n) == { i \in DOMAIN Sources : n \in NamesOf(Contribution(i)) }

\* C13: while run() loops and after it, the plugin list is the concatenation
\* of the contributions of the sources processed so far in configuration
\* order, and each record of the written catalog is a record of the first
\* source of the configuration that contributes its name
C13_ConfigurationOrder ==
    /\ idx >= 1 => all_plugins = Concatenated(idx - 1)
    /\ output # <<>> =>
          \A c \in DOMAIN Catalog :
              LET first == Contribution(Min(Contributors(Catalog[c].name)))
              IN  \E k \in DOMAIN first : first[k] = Catalog[c]

\* C13 witness: a catalog was written for a configuration in which a later
\* source contributes a name of an earlier source with another payload
C13_Witness ==
    /\ output # <<>>
    /\ idx = Len(Sources) + 1
    /\ \E i, j \in DOMAIN Sources :
          /\ i < j
          /\ \E a \in DOMAIN Contribution(i), b \in DOMAIN Contribution(j) :
                /\ Contribution(i)[a].name = Contribution(j)[b].name
                /\ Contribution(i)[a].version # Contribution(j)[b].version
                /\ \E c \in DOMAIN Catalog : Catalog[c] = Contribution(i)[a]

\* s.endswith(p)
EndsWith(s, p) ==
    /\ Len(p) <= Len(s)
    /\ SubSeq(s, Len(s) - Len(p) + 1, Len(s)) = p

\* the last path segment of a url, a trailing slash ignored, for the https
\* form (segments separated by "/") and the ssh form (path after ":")
LastSegment(url) == SplitLast(SplitLast(RStrip(url, "/"), "/"), ":")

\* the segment with only a trailing ".git" removed
WithoutGitSuffix(seg) ==
    IF EndsWith(seg, <<".", "g", "i", "t">>) THEN SubSeq(seg, 1, Len(seg) - 4) ELSE seg

\* the provenance tag a marketplace source is to have
StatedTag(source) ==
    IF "tag_prefix" \in DOMAIN source THEN source.tag_prefix
    ELSE WithoutGitSuffix(LastSegment(source.url))

\* C14 as stated: every record a marketplace source appends carries as its
\* provenance the tag_prefix of the source when one is configured, and
\* otherwise the last path segment of the url with only a trailing ".git"
\* removed
C14_TagIsPrefixOrRepoName ==
    [][ AtMarketplace =>
            \A k \in DOMAIN Appended :
                Appended[k][provenance_field] = StatedTag(Sources[idx]) ]_vars

\* C15: with a missing or unparseable configuration file the constructor
\* raises: the program gets no further than that, nothing is fetched, no
\* temporary directory, target, catalog or provenance file is written and
\* run() returns nothing
C15_ConfigErrorIsFatal ==
    config_file # "ok" =>
        /\ pc \in {"new", "raised"}
        /\ fetches = 0
        /\ temp_dir = FALSE
        /\ clone_dirs = {}
        /\ processed_marketplaces = {}
        /\ all_plugins = <<>>
        /\ targets = InitialTargets
        /\ output = <<>>
        /\ output_writes = 0
        /\ origins = <<>>
        /\ result = None

\* C15 witness: the constructor has raised on an unparseable file
C15_Witness ==
    /\ config_file = "invalid"
    /\ pc = "raised"

\* C16: the temporary directory exists exactly while run() is between its
\* entry and its return; once run() has returned, with 0 or with 1, the
\* directory and the clones in it are gone
C16_TempDirRemoved ==
    /\ temp_dir <=> pc \in {"sources", "origins", "return"}
    /\ ~temp_dir => clone_dirs = {}
    /\ result # None => (pc = "done" /\ ~temp_dir)

\* C16 witness: run() has returned 1 after a fatal error at its third fetch,
\* and the temporary directory that held two clones no longer exists
C16_Witness ==
    /\ pc = "done"
    /\ result = 1
    /\ fetches = 3
    /\ SomeDescriptorMissing
    /\ temp_dir = FALSE
    /\ clone_dirs = {}

\* C17: a successfully processed skill source leaves at its target path
\* exactly the files of the fetched repository that match no exclude
\* pattern, whatever the path held before, and leaves other paths alone
C17_SkillTargetReplaced ==
    [][ (AtSkill /\ idx' = idx + 1) =>
            LET target   == target_path_of(Sources[idx])
                fetched  == Remote(Sources[idx].url, branch_of(Sources[idx])).files
            IN  /\ target \in DOMAIN targets'
                /\ targets'[target] = { f \in fetched : f \notin exclude_patterns }
                /\ \A p \in DOMAIN targets \ {target} :
                      p \in DOMAIN targets' /\ targets'[p] = targets[p] ]_vars

\* C17 witness: a skill source was processed whose target path held, before
\* the run, a file that the fetched repository does not have
C17_Witness ==
    /\ LastEvent = "added_skill"
    /\ idx > 1
    /\ target_path_of(Sources[idx - 1]) \in DOMAIN InitialTargets
    /\ \E f \in InitialTargets[target_path_of(Sources[idx - 1])] :
          /\ f \notin Remote(Sources[idx - 1].url, branch_of(Sources[idx - 1])).files
          /\ f \notin targets[target_path_of(Sources[idx - 1])]
    /\ targets[target_path_of(Sources[idx - 1])] # {}

\* C18: when the second of two invocations with the same configuration and
\* upstream repositories has returned, it has returned what the first did
\* and has written the catalog as often, and the catalog and the provenance
\* file are what the first invocation wrote
C18_RerunIdentical ==
    (first_run # <<>> /\ pc = "done") =>
        /\ result = first_run[1].result
        /\ output_writes = first_run[1].output_writes
        /\ output = first_run[1].output
        /\ origins = first_run[1].origins

\* C18 witness: the second invocation has written a catalog of deduplicated
\* marketplace plugins and of a skill whose target the first invocation had
\* already filled
C18_Witness ==
    /\ first_run # <<>>
    /\ pc = "done"
    /\ result = 0
    /\ output_writes = 1
    /\ Len(Catalog) < Len(all_plugins)
    /\ provenance_map # <<>>
    /\ \E k \in DOMAIN log : log[k].event = "added_skill"

\* a is an initial segment of b
IsPrefix(a, b) == Len(a) <= Len(b) /\ SubSeq(b, 1, Len(a)) = a

\* C19: no step of a run removes, reorders or overwrites what the plugin list
\* and the provenance lists hold: each is extended at its end, and a name of
\* the provenance map stays in it
C19_AppendOnly ==
    [][ /\ IsPrefix(all_plugins, all_plugins')
        /\ \A n \in DOMAIN provenance_map :
              /\ n \in DOMAIN provenance_map'
              /\ IsPrefix(provenance_map[n], provenance_map'[n]) ]_vars

\* C19 witness: the third source has been processed, the plugin list holds
\* records of three sources and a provenance list holds three tags
C19_Witness ==
    /\ pc = "sources"
    /\ idx = 4
    /\ \A i \in 1..3 : Contribution(i) # <<>>
    /\ Len(all_plugins) >= 5
    /\ \E n \in DOMAIN provenance_map : Len(provenance_map[n]) >= 3

\* C20: for every entry that a processed marketplace source lists and does
\* not denylist, the tag of that source is in the provenance list of the
\* name of the entry, also when the catalog keeps the payload of another
\* source for that name; the list has one tag per such entry
C20_ProvenanceIndependentOfDedup ==
    \A i \in ProcessedMarketplaces :
        \A k \in DOMAIN Upstream(i) :
            LET n == Upstream(i)[k].name
            IN  n \notin denylist_of(Sources[i]) =>
                    /\ n \in DOMAIN provenance_map
                    /\ \E t \in DOMAIN provenance_map[n] :
                          provenance_map[n][t] = tag_prefix_of(Sources[i])
                    /\ Len(provenance_map[n])
                          = Cardinality(UNION { { <<j, e>> : e \in
                                  { d \in DOMAIN Upstream(j) :
                                      /\ Upstream(j)[d].name = n
                                      /\ n \notin denylist_of(Sources[j]) } } :
                                j \in ProcessedMarketplaces })

\* C20 witness: a catalog was written that keeps for a name the payload of
\* one source while the provenance list of the name has the tag of a later
\* source, whose payload was discarded
C20_Witness ==
    /\ output # <<>>
    /\ \E c \in DOMAIN Catalog : \E j \in ProcessedMarketplaces :
          /\ Catalog[c].name \in NamesOf(Contribution(j))
          /\ Catalog[c][provenance_field] # tag_prefix_of(Sources[j])
          /\ \E t \in DOMAIN provenance_map[Catalog[c].name] :
                provenance_map[Catalog[c].name][t] = tag_prefix_of(Sources[j])

\* the processed marketplace sources that list the name n and do not
\* denylist it
Suppliers(n) ==
    { j \in ProcessedMarketplaces :
        n \in NamesOf(Upstream(j)) /\ n \notin denylist_of(Sources[j]) }

\* the processed marketplace sources that list the name n and denylist it
Excluders(n) ==
    { i \in ProcessedMarketplaces :
        n \in NamesOf(Upstream(i)) /\ n \in denylist_of(Sources[i]) }

\* the records that source i would contribute for the name n if it had no
\* denylist
PayloadsOf(i, n) ==
    { Tagged(Upstream(i)[k], tag_prefix_of(Sources[i])) :
        k \in { d \in DOMAIN Upstream(i) : Upstream(i)[d].name = n } }

\* C21: in a written catalog, a name that one processed marketplace source
\* denylists and another processed marketplace source supplies without
\* denylisting it has a record; unless a skill source gave the record, it is
\* a record of a source that does not denylist the name, never one of a
\* source that does; and the provenance list of the name has a tag for each
\* entry of the sources that do not denylist it and for no other entry
C21_DenylistIsPerSource ==
    output # <<>> =>
        \A i \in ProcessedMarketplaces : \A n \in denylist_of(Sources[i]) :
            Suppliers(n) # {} =>
                /\ n \in NamesOf(Catalog)
                /\ LET r == Catalog[FirstIndex(Catalog, n)]
                   IN  /\ r \notin PayloadsOf(i, n)
                       /\ \/ r[provenance_field] = Direct
                          \/ \E j \in Suppliers(n) : r \in PayloadsOf(j, n)
                /\ n \in DOMAIN provenance_map
                /\ \A t \in DOMAIN provenance_map[n] :
                      \E j \in Suppliers(n) :
                          provenance_map[n][t] = tag_prefix_of(Sources[j])
                /\ Len(provenance_map[n])
                      = Cardinality(UNION { { <<j, e>> : e \in
                            { d \in DOMAIN Upstream(j) : Upstream(j)[d].name = n } } :
                          j \in Suppliers(n) })

\* C21 witness: a catalog was written with the record of a name that an
\* earlier processed source lists and denylists, the record being the one of
\* a later source
C21_Witness ==
    /\ output # <<>>
    /\ \E n \in NamesOf(Catalog) :
          /\ Excluders(n) # {}
          /\ Suppliers(n) # {}
          /\ Min(Excluders(n)) < Min(Suppliers(n))
          /\ Catalog[FirstIndex(Catalog, n)] \in PayloadsOf(Min(Suppliers(n)), n)

\* the step logs "Already processed ..., skipping" and goes to the next
\* source
Skipped ==
    /\ idx' = idx + 1
    /\ Len(log') = Len(log) + 1
    /\ LastEvent' = "already_processed"

\* C22 as stated: the step at a marketplace source skips it as already
\* processed exactly when an earlier marketplace source of the configuration
\* has its url and its branch
C22_SkipIffSameUrlAndBranch ==
    [][ AtMarketplace => (Skipped <=> ProcessedEarlier) ]_vars

\* _process_source was called for every source of the configuration
EverySourceProcessed ==
    \A i \in DOMAIN Sources : \E k \in DOMAIN log : log[k].at = i

\* C23: the catalog is written at most once in a run; the step that writes
\* it is taken after the loop, when every source was processed and none
\* raised; and once a source has raised, run() has returned 1 and there is
\* no catalog
C23_CatalogWrittenOnceAtEnd ==
    [][ /\ output_writes' <= 1
        /\ (output' # output \/ output_writes' # output_writes) =>
              /\ output_writes = 0
              /\ pc = "sources"
              /\ idx = Len(Sources) + 1
              /\ EverySourceProcessed
              /\ ~SomeSourceFailed
              /\ ~SomeFetchFailed
        /\ SomeSourceFailed' =>
              /\ pc' = "done"
              /\ result' = 1
              /\ output_writes' = 0
              /\ output' = <<>> ]_vars

\* C23 witness: run() has returned 0 after one catalog write, with a
\* configuration of three sources of which one had no descriptor and
\* one was skipped as already processed
C23_Witness ==
    /\ pc = "done"
    /\ result = 0
    /\ output_writes = 1
    /\ Len(Sources) >= 3
    /\ EverySourceProcessed
    /\ SomeDescriptorMissing
    /\ \E k \in DOMAIN log : log[k].event = "already_processed"
    /\ all_plugins # <<>>

\* the positions of the plugin list that hold a record of the name n
\* appended by a marketplace source
MarketplaceRecords(n) ==
    { k \in DOMAIN all_plugins :
        /\ all_plugins[k].name = n
        /\ all_plugins[k][provenance_field] # Direct }

\* C24: every key of the provenance map is the name of a record of the
\* plugin list, and the provenance list of a name has as many tags as the
\* plugin list has records of that name appended by marketplace sources; a
\* name without such a record is not a key
C24_NoOrphanProvenance ==
    /\ \A n \in DOMAIN provenance_map :
          /\ n \in NamesOf(all_plugins)
          /\ Len(provenance_map[n]) = Cardinality(MarketplaceRecords(n))
    /\ \A n \in NamesOf(all_plugins) \ DOMAIN provenance_map :
          MarketplaceRecords(n) = {}

\* C24 witness: sources were processed of which one skipped a denylisted
\* entry, a name has two tags, and a name of the provenance map also has the
\* record of a skill source
C24_Witness ==
    /\ \E k \in DOMAIN log : log[k].event = "skip_denylisted"
    /\ \E k \in DOMAIN log : log[k].event = "adding"
    /\ \E n \in DOMAIN provenance_map : Len(provenance_map[n]) >= 2
    /\ \E k \in DOMAIN all_plugins :
          /\ all_plugins[k][provenance_field] = Direct
          /\ all_plugins[k].name \in DOMAIN provenance_map

====
